---- MODULE Spec2Model ----
(***************************************************************************)
(* Model of image_qrcode/apps/kotik_apps.py: four dataframe processors     *)
(* (generate_qr_code, enhance_image, convert_to_cmyk,                      *)
(* extract_white_underbase).  One call of one processor is modelled: the   *)
(* loop over the rows of the table, the per-row image transformation, the  *)
(* file name, the file written under APP_DIR, the calls on the context and *)
(* the returned table.  An exception ends the call (there is no try in the *)
(* module).                                                                *)
(***************************************************************************)
EXTENDS Integers, Sequences, FiniteSets, TLC

VARIABLES op, data, i, pc, error, result,
          url, fileName, contrast, saturation,
          src, img, filename,
          files, log, outputs

vars == <<op, data, i, pc, error, result, url, fileName, contrast, saturation,
          src, img, filename, files, log, outputs>>

(* ------------------------------ bounds --------------------------------- *)

\* rows of the input table
MaxRows == 2

\* pixels of a source image
ImgSize == 2

\* distinct readings of datetime.now(), in microseconds after the first
MaxClock == 1

(* --------------------------- Python values ----------------------------- *)

\* a local variable holds a str, a float (in tenths) or nothing yet
PyStr(s) == [type |-> "str", s |-> s, f |-> 0]

PyFloat(x) == [type |-> "float", s |-> "", f |-> x]

Unbound == [type |-> "unbound", s |-> "", f |-> 0]

(* ------------------------------ inputs --------------------------------- *)

Ops == {"generate_qr_code", "enhance_image", "convert_to_cmyk", "extract_white_underbase"}

FileOps == Ops \ {"generate_qr_code"}

\* the second one is longer than a version-40 symbol of level L can hold
OverCapacityUrl == "https://example.com/?q=<more bytes than any symbol holds>"

Urls == {"https://example.com", OverCapacityUrl}

FileNames == {"logo.png", "art.PSD"}

\* contrast and saturation factors, in tenths
Factors == {10, 15}

\* the columns of the three schemes, in declaration order
UrlInput == <<"url">>

ImageEnhancementInput == <<"fileName", "contrast", "saturation">>

ImageFileInput == <<"fileName">>

RowsOf(o) ==
  CASE o = "generate_qr_code" -> [url : Urls]
    [] o = "enhance_image" -> [fileName : FileNames, contrast : Factors, saturation : {12}]
    [] OTHER -> [fileName : FileNames]

TablesOf(o) == UNION {[1..n -> RowsOf(o)] : n \in 0..MaxRows}

(* ------------------------------ images --------------------------------- *)

NoImage == [mode |-> "none", px |-> <<>>, symbol |-> ""]

Colours == {<<0, 0, 0>>, <<200, 200, 200>>, <<255, 255, 0>>}

Greys == {0, 200}

Alphas == {0, 128, 255}

PixelsOf(m) ==
  CASE m = "RGBA" -> {<<c[1], c[2], c[3], a>> : c \in Colours, a \in Alphas}
    [] m = "RGB" -> Colours
    [] m = "LA" -> {<<g, a>> : g \in Greys, a \in Alphas}
    [] OTHER -> {<<g>> : g \in Greys}

\* what a readable file decodes to
Sources ==
  UNION {{[mode |-> m, px |-> p, symbol |-> ""] : p \in [1..ImgSize -> PixelsOf(m)]} :
         m \in {"RGBA", "RGB", "LA", "L"}}

\* what opening a path gives: an image, or the exception raised
OpenErrors == {"FileNotFoundError", "UnidentifiedImageError"}

\* the alpha band of an image that has one
GetAlpha(im) == [k \in DOMAIN im.px |-> im.px[k][Len(im.px[k])]]

Clip8(v) == IF v <= 0 THEN 0 ELSE IF v >= 255 THEN 255 ELSE v

\* ITU-R 601-2 luma, as Pillow computes it in integers
L24(r, g, b) == (r * 19595 + g * 38470 + b * 7471 + 32768) \div 65536

MulDiv255(a, b) == LET tmp == a * b + 128 IN ((tmp \div 256) + tmp) \div 256

ToRGBA(p, m) ==
  CASE m = "RGBA" -> p
    [] m = "RGB" -> <<p[1], p[2], p[3], 255>>
    [] m = "LA" -> <<p[1], p[1], p[1], p[2]>>
    [] m = "L" -> <<p[1], p[1], p[1], 255>>
    [] m = "CMYK" -> LET nk == 255 - p[4]
                     IN <<Clip8(nk - MulDiv255(p[1], nk)), Clip8(nk - MulDiv255(p[2], nk)),
                          Clip8(nk - MulDiv255(p[3], nk)), 255>>

\* Image.convert(mode), through RGBA
ConvertPixel(p, from, to) ==
  LET q == ToRGBA(p, from)
  IN CASE to = "RGBA" -> q
       [] to = "RGB" -> <<q[1], q[2], q[3]>>
       [] to = "L" -> IF from \in {"L", "LA"} THEN <<p[1]>> ELSE <<L24(q[1], q[2], q[3])>>
       [] to = "LA" -> IF from \in {"L", "LA"} THEN <<p[1], q[4]>>
                       ELSE <<L24(q[1], q[2], q[3]), q[4]>>
       [] to = "CMYK" -> IF from \in {"L", "LA"} THEN <<0, 0, 0, 255 - p[1]>>
                         ELSE <<255 - q[1], 255 - q[2], 255 - q[3], 0>>

Convert(im, to) ==
  [mode |-> to, px |-> [k \in DOMAIN im.px |-> ConvertPixel(im.px[k], im.mode, to)],
   symbol |-> im.symbol]

\* Image.putalpha(band): a mode without an alpha variant of its own is first
\* promoted to the alpha mode of its base mode (CMYK has base RGB)
PutAlpha(im, band) ==
  LET base == IF im.mode \in {"RGBA", "LA"} THEN im
              ELSE IF im.mode = "L" THEN Convert(im, "LA") ELSE Convert(im, "RGBA")
      n == IF base.mode = "LA" THEN 2 ELSE 4
  IN [base EXCEPT !.px = [k \in DOMAIN base.px |-> [base.px[k] EXCEPT ![n] = band[k]]]]

\* Image.merge("LA", (l, a)) of a one-band image and a band
MergeLA(l, a) ==
  [mode |-> "LA", px |-> [k \in DOMAIN l.px |-> <<l.px[k][1], a[k]>>], symbol |-> l.symbol]

\* Image.blend(im1, im2, alpha) with alpha in tenths, truncating as the C cast does
Blend(im1, im2, alpha) ==
  [im2 EXCEPT !.px = [k \in DOMAIN im2.px |->
     [b \in DOMAIN im2.px[k] |->
        Clip8((10 * im1.px[k][b] + alpha * (im2.px[k][b] - im1.px[k][b])) \div 10)]]]

RECURSIVE SumBand(_, _)
SumBand(im, n) == IF n = 0 THEN 0 ELSE im.px[n][1] + SumBand(im, n - 1)

\* ImageEnhance.Contrast(image).enhance(factor)
EnhanceContrast(image, factor) ==
  LET grey == Convert(image, "L")
      n == Len(image.px)
      mean == (2 * SumBand(grey, n) + n) \div (2 * n)
      flat == [mode |-> "L", px |-> [k \in DOMAIN image.px |-> <<mean>>], symbol |-> ""]
      degenerate == PutAlpha(Convert(flat, image.mode), GetAlpha(image))
  IN Blend(degenerate, image, factor)

\* ImageEnhance.Color(image).enhance(factor)
EnhanceColor(image, factor) ==
  LET degenerate == Convert(Convert(image, "LA"), image.mode)
  IN Blend(degenerate, image, factor)

(* --------------------------- the processors ---------------------------- *)

\* brightness below which a pixel receives underbase ink
Threshold == 200

\* the mask with the comparison made inclusive
UnderbaseMask_inclusive(p) == IF p <= Threshold THEN 255 ELSE 0

\* the lambda given to point() in extract_white_underbase
UnderbaseMask(p) == IF p < Threshold THEN 255 ELSE 0

\* grayscale.point(lambda ...): the lambda applied to every pixel of a one-band image
Point(im) == [im EXCEPT !.px = [k \in DOMAIN im.px |-> <<UnderbaseMask(im.px[k][1])>>]]

\* the band taken one position too early: the blue band
SplitAlpha_blue(im) == [k \in DOMAIN im.px |-> im.px[k][3]]

\* img.split()[3] of an RGBA image
SplitAlpha(im) == [k \in DOMAIN im.px |-> im.px[k][4]]

\* lines 212-227: what extract_white_underbase builds from a decoded file
Underbase(f) ==
  LET rgba == Convert(f, "RGBA")
      grayscale == Convert(rgba, "L")
      alpha == SplitAlpha(rgba)
      underbase == Point(grayscale)
  IN Convert(MergeLA(underbase, alpha), "RGBA")

\* lines 158-170: what convert_to_cmyk builds from a decoded file
Cmyk(f) ==
  LET alpha == IF f.mode = "RGBA" THEN GetAlpha(f) ELSE <<>>
      cmyk == Convert(f, "CMYK")
  IN IF f.mode = "RGBA" THEN PutAlpha(cmyk, alpha) ELSE cmyk

\* lines 107-112: the two enhancement passes of enhance_image
Enhance(rgba, c, s) == EnhanceColor(EnhanceContrast(rgba, c), s)

\* str.lower() on the names that occur
Lower(s) == IF s = "art.PSD" THEN "art.psd" ELSE s

\* str.endswith('.psd') on the names that occur
EndsWithPsd(s) == s = "art.psd"

\* QRCode.make(fit=True): the version grows from 1 until the data fits, up to 40
DataOverflow(u) == u = OverCapacityUrl

\* QRCode.make_image(): the symbol carrying the data
QrImage(u) == [mode |-> "1", px |-> <<>>, symbol |-> u]

\* strftime("%Y%m%d_%H%M%S_%f") of the reading t microseconds after the first
Strftime(t) ==
  "20240101_120000_" \o (IF t < 10 THEN "00000" ELSE IF t < 100 THEN "0000" ELSE "000")
                     \o ToString(t)

Clock == 0..MaxClock

Suffix(o) ==
  CASE o = "enhance_image" -> "_enhanced.tiff"
    [] o = "convert_to_cmyk" -> "_CMYK.tiff"
    [] o = "extract_white_underbase" -> "_underbase.tiff"

Column(o) ==
  CASE o = "generate_qr_code" -> "qr_code"
    [] o = "enhance_image" -> "enhanced_image"
    [] o = "convert_to_cmyk" -> "cmyk_image"
    [] o = "extract_white_underbase" -> "underbase_image"

NoTable == [columns |-> <<>>, rows |-> <<>>]

\* pd.DataFrame(outputs, columns=[c])
DataFrame(rows, c) == [columns |-> <<c>>, rows |-> rows]

Call(name, arg) == [call |-> name, arg |-> arg]

(* ------------------------------- state --------------------------------- *)

Init ==
  /\ op \in Ops
  /\ data \in TablesOf(op)
  /\ i = 0
  /\ pc = "loop"
  /\ error = ""
  /\ result = NoTable
  /\ url = Unbound
  /\ fileName = Unbound
  /\ contrast = Unbound
  /\ saturation = Unbound
  /\ src = NoImage
  /\ img = NoImage
  /\ filename = Unbound
  /\ files = <<>>
  /\ log = <<>>
  /\ outputs = <<>>

\* the exception caught around the row and the loop carried on
Raise_swallowed(e) ==
  /\ pc' = "loop"
  /\ error' = e
  /\ UNCHANGED <<i, result, files, log, outputs>>

\* an exception leaves the processor: nothing in the module catches it
Raise(e) ==
  /\ pc' = "raised"
  /\ error' = e
  /\ UNCHANGED <<i, result, files, log, outputs>>

\* the for statement takes the next row and binds the loop variables
next_row ==
  /\ pc = "loop"
  /\ i < Len(data)
  /\ i' = i + 1
  /\ pc' = "transform"
  /\ CASE op = "generate_qr_code" ->
            /\ url' = PyStr(data[i + 1][UrlInput[1]])
            /\ UNCHANGED <<fileName, contrast, saturation>>
       [] op = "enhance_image" ->
            \* a record of to_dict(orient='records') is a dict; unpacking it
            \* iterates its keys
            /\ fileName' = PyStr(ImageEnhancementInput[1])
            /\ contrast' = PyStr(ImageEnhancementInput[2])
            /\ saturation' = PyStr(ImageEnhancementInput[3])
            /\ UNCHANGED url
       [] OTHER ->
            /\ fileName' = PyStr(data[i + 1][ImageFileInput[1]])
            /\ UNCHANGED <<url, contrast, saturation>>
  /\ UNCHANGED <<op, data, error, result, src, img, filename, files, log, outputs>>

\* the loop is exhausted: the table of the collected names is returned
return_table ==
  /\ pc = "loop"
  /\ i = Len(data)
  /\ pc' = "returned"
  /\ result' = DataFrame(outputs, Column(op))
  /\ UNCHANGED <<op, data, i, error, url, fileName, contrast, saturation,
                 src, img, filename, files, log, outputs>>

\* the data cut to what the largest symbol holds instead of the exception
generate_qr_code_make_truncating ==
  /\ pc = "transform"
  /\ op = "generate_qr_code"
  /\ img' = QrImage(url.s)
  /\ pc' = "name"
  /\ UNCHANGED <<op, data, i, error, result, url, fileName, contrast, saturation,
                 src, filename, files, log, outputs>>

\* generate_qr_code, lines 38-48
generate_qr_code_make ==
  /\ pc = "transform"
  /\ op = "generate_qr_code"
  /\ IF DataOverflow(url.s)
     THEN Raise("DataOverflowError") /\ UNCHANGED <<src, img>>
     ELSE /\ img' = QrImage(url.s)
          /\ pc' = "name"
          /\ UNCHANGED <<src, error, i, result, files, log, outputs>>
  /\ UNCHANGED <<op, data, url, fileName, contrast, saturation, filename>>

\* enhance_image, lines 100-112.  Both branches of the test on the extension
\* decode the file (PSDImage.open(..).composite() or Image.open) and convert
\* the picture to RGBA
enhance_image_transform ==
  /\ pc = "transform"
  /\ op = "enhance_image"
  /\ \/ \E e \in OpenErrors : Raise(e) /\ UNCHANGED <<src, img>>
     \/ \E f \in Sources :
          LET rgba == IF EndsWithPsd(Lower(fileName.s))
                      THEN Convert(f, "RGBA")
                      ELSE Convert(f, "RGBA")
          IN /\ src' = f
             /\ IF contrast.type # "float" \/ saturation.type # "float"
                THEN Raise("TypeError") /\ UNCHANGED img
                ELSE /\ img' = Enhance(rgba, contrast.f, saturation.f)
                     /\ pc' = "name"
                     /\ UNCHANGED <<error, i, result, files, log, outputs>>
  /\ UNCHANGED <<op, data, url, fileName, contrast, saturation, filename>>

\* convert_to_cmyk, lines 158-170
convert_to_cmyk_transform ==
  /\ pc = "transform"
  /\ op = "convert_to_cmyk"
  /\ \/ \E e \in OpenErrors : Raise(e) /\ UNCHANGED <<src, img>>
     \/ \E f \in Sources :
          /\ src' = f
          /\ img' = Cmyk(f)
          /\ pc' = "name"
          /\ UNCHANGED <<error, i, result, files, log, outputs>>
  /\ UNCHANGED <<op, data, url, fileName, contrast, saturation, filename>>

\* extract_white_underbase, lines 212-227
extract_white_underbase_transform ==
  /\ pc = "transform"
  /\ op = "extract_white_underbase"
  /\ \/ \E e \in OpenErrors : Raise(e) /\ UNCHANGED <<src, img>>
     \/ \E f \in Sources :
          /\ src' = f
          /\ img' = Underbase(f)
          /\ pc' = "name"
          /\ UNCHANGED <<error, i, result, files, log, outputs>>
  /\ UNCHANGED <<op, data, url, fileName, contrast, saturation, filename>>

\* generate_qr_code, lines 51-52: the name is the reading of the clock
generate_qr_code_filename ==
  /\ pc = "name"
  /\ op = "generate_qr_code"
  /\ \E now \in Clock : filename' = PyStr("qrcode_" \o Strftime(now) \o ".png")
  /\ pc' = "save"
  /\ UNCHANGED <<op, data, i, error, result, url, fileName, contrast, saturation,
                 src, img, files, log, outputs>>

\* lines 115, 173 and 230: filename = f"{filename}<suffix>".  filename is a
\* local of the function, read here before the function ever assigns it
derive_filename ==
  /\ pc = "name"
  /\ op \in FileOps
  /\ IF filename.type = "unbound"
     THEN Raise("UnboundLocalError") /\ UNCHANGED filename
     ELSE /\ filename' = PyStr(filename.s \o Suffix(op))
          /\ pc' = "save"
          /\ UNCHANGED <<error, i, result, files, log, outputs>>
  /\ UNCHANGED <<op, data, url, fileName, contrast, saturation, src, img>>

\* img.save(os.path.join(APP_DIR, filename)): a file of that name is replaced
save ==
  /\ pc = "save"
  /\ files' = [n \in DOMAIN files \cup {filename.s} |->
                 IF n = filename.s THEN img ELSE files[n]]
  /\ log' = Append(log, Call("save", <<filename.s>>))
  /\ pc' = "share"
  /\ UNCHANGED <<op, data, i, error, result, url, fileName, contrast, saturation,
                 src, img, filename, outputs>>

\* context.share(filename)
share ==
  /\ pc = "share"
  /\ log' = Append(log, Call("share", <<filename.s>>))
  /\ pc' = "synchronize"
  /\ UNCHANGED <<op, data, i, error, result, url, fileName, contrast, saturation,
                 src, img, filename, files, outputs>>

\* the synchronization left out
synchronize_skipped ==
  /\ pc = "synchronize"
  /\ pc' = "append"
  /\ UNCHANGED <<op, data, i, error, result, url, fileName, contrast, saturation,
                 src, img, filename, files, log, outputs>>

\* context.synchronize([filename])
synchronize ==
  /\ pc = "synchronize"
  /\ log' = Append(log, Call("synchronize", <<filename.s>>))
  /\ pc' = "append"
  /\ UNCHANGED <<op, data, i, error, result, url, fileName, contrast, saturation,
                 src, img, filename, files, outputs>>

\* outputs.append(filename)
append ==
  /\ pc = "append"
  /\ outputs' = Append(outputs, filename.s)
  /\ log' = Append(log, Call("append", <<filename.s>>))
  /\ pc' = "loop"
  /\ UNCHANGED <<op, data, i, error, result, url, fileName, contrast, saturation,
                 src, img, filename, files>>

Next ==
  \/ next_row
  \/ return_table
  \/ generate_qr_code_make
  \/ enhance_image_transform
  \/ convert_to_cmyk_transform
  \/ extract_white_underbase_transform
  \/ generate_qr_code_filename
  \/ derive_filename
  \/ save
  \/ share
  \/ synchronize
  \/ append

Spec == Init /\ [][Next]_vars

(* ------------------------------ properties ---------------------------- *)

\* the errors of an input that is not valid: an unreadable file, a URL that
\* does not fit a symbol
InputErrors == OpenErrors \cup {"DataOverflowError"}

\* the name under which the k-th processed row was saved
SavedName(k) == log[4 * (k - 1) + 1].arg[1]

\* the modes of the decoded files that carry an alpha band
HasAlpha(im) == im.mode \in {"RGBA", "LA"}

\* alpha of pixel k of a decoded file, 255 where the mode has no alpha band
SourceAlpha(f, k) ==
  IF f.mode = "RGBA" THEN f.px[k][4] ELSE IF f.mode = "LA" THEN f.px[k][2] ELSE 255

\* luminance of pixel k of a decoded file
SourceLuminance(f, k) ==
  IF f.mode \in {"L", "LA"} THEN f.px[k][1] ELSE L24(f.px[k][1], f.px[k][2], f.px[k][3])

\* C1: a call whose inputs are all valid returns a table with one row per
\* input row, the k-th row being the name of the file generated for the
\* k-th input row
C1_OneRowPerInputRow ==
  (pc \in {"returned", "raised"} /\ error \notin InputErrors) =>
     /\ pc = "returned"
     /\ Len(result.rows) = Len(data)
     /\ \A k \in 1..Len(data) : result.rows[k] = SavedName(k)

\* C2: in the three file processors the name of a processed row is the
\* row's own fileName followed by the suffix of the processor, and never
\* comes from an unset or left-over variable
C2_NameFromOwnRow ==
  op \in FileOps =>
     /\ error # "UnboundLocalError"
     /\ pc \in {"save", "share", "synchronize", "append"} =>
          filename = PyStr(data[i].fileName \o Suffix(op))

\* C3: for every row the file is written, then shared, then synchronized
\* with the list of that one name, then the name is appended; every shared
\* or synchronized name is a written file and every returned name has been
\* shared and synchronized
C3_SaveShareSynchronizeAppend ==
  /\ \A j \in 1..Len(log) :
       /\ log[j].call = "save" => j % 4 = 1
       /\ log[j].call = "share" => j > 1 /\ log[j - 1] = Call("save", log[j].arg)
       /\ log[j].call = "synchronize" =>
            j > 1 /\ log[j - 1] = Call("share", log[j].arg) /\ Len(log[j].arg) = 1
       /\ log[j].call = "append" => j > 1 /\ log[j - 1] = Call("synchronize", log[j].arg)
       /\ log[j].call \in {"share", "synchronize"} => log[j].arg[1] \in DOMAIN files
  /\ \A k \in 1..Len(outputs) :
       /\ 4 * k <= Len(log)
       /\ log[4 * k - 2] = Call("share", <<outputs[k]>>)
       /\ log[4 * k - 1] = Call("synchronize", <<outputs[k]>>)
       /\ log[4 * k] = Call("append", <<outputs[k]>>)
  /\ pc = "returned" => result.rows = outputs

C3_Witness ==
  /\ pc = "returned"
  /\ Len(result.rows) >= 1
  /\ Len(log) = 4 * Len(result.rows)
  /\ log[Len(log) - 1].call = "synchronize"

\* C4: when a source file cannot be opened or decoded the exception leaves
\* the call: no table is returned, nothing more is opened, written, shared
\* or synchronized, nothing is retried, and what was written stays
C4_FailureAbortsBatch ==
  /\ [](error \in OpenErrors => pc = "raised" /\ result = NoTable)
  /\ [][(error \in OpenErrors) => UNCHANGED vars]_vars
  /\ [][(error = "" /\ error' \in OpenErrors) =>
          UNCHANGED <<i, files, log, outputs>>]_vars

C4_Witness ==
  /\ error \in OpenErrors
  /\ pc = "raised"
  /\ i < Len(data)

\* C5: the picture convert_to_cmyk builds from a source with an alpha
\* channel (of any mode) has the source's alpha channel and, without it,
\* the bands of the CMYK conversion; from a source without alpha it is a
\* CMYK picture without alpha
C5_AlphaCarriedThroughCmyk ==
  (op = "convert_to_cmyk" /\ img # NoImage) =>
     IF HasAlpha(src)
     THEN \A k \in DOMAIN img.px :
            /\ Len(img.px[k]) = 5
            /\ SubSeq(img.px[k], 1, 4) = ConvertPixel(src.px[k], src.mode, "CMYK")
            /\ img.px[k][5] = SourceAlpha(src, k)
     ELSE img.mode = "CMYK" /\ \A k \in DOMAIN img.px : Len(img.px[k]) = 4

\* C6: every pixel of the picture extract_white_underbase builds has the
\* alpha of the same pixel of the source (opaque where the source has no
\* alpha channel)
C6_UnderbaseKeepsAlpha ==
  (op = "extract_white_underbase" /\ img # NoImage) =>
     /\ img.mode = "RGBA"
     /\ DOMAIN img.px = DOMAIN src.px
     /\ \A k \in DOMAIN img.px : img.px[k][4] = SourceAlpha(src, k)

C6_Witness ==
  /\ op = "extract_white_underbase"
  /\ img # NoImage
  /\ \E k \in DOMAIN src.px : SourceAlpha(src, k) = 128
  /\ \E k \in DOMAIN src.px : SourceAlpha(src, k) = 0 /\ SourceLuminance(src, k) < Threshold

\* C7, as stated: a pixel whose source luminance is below the threshold is
\* opaque white, any other pixel is transparent
C7_OpaqueWhiteOrTransparent ==
  (op = "extract_white_underbase" /\ img # NoImage) =>
     \A k \in DOMAIN img.px :
        IF SourceLuminance(src, k) < 200
        THEN img.px[k] = <<255, 255, 255, 255>>
        ELSE img.px[k][4] = 0

\* C7, amended: a pixel whose source luminance is below the threshold is
\* white, any other pixel is black, and either has the alpha of the source
\* pixel
C7_WhiteOrBlackWithSourceAlpha ==
  (op = "extract_white_underbase" /\ img # NoImage) =>
     \A k \in DOMAIN img.px :
        IF SourceLuminance(src, k) < 200
        THEN img.px[k] = <<255, 255, 255, SourceAlpha(src, k)>>
        ELSE img.px[k] = <<0, 0, 0, SourceAlpha(src, k)>>

C7_Witness ==
  /\ op = "extract_white_underbase"
  /\ img # NoImage
  /\ \E k \in DOMAIN src.px : SourceLuminance(src, k) = 200 /\ SourceAlpha(src, k) = 255
  /\ \E k \in DOMAIN src.px : SourceLuminance(src, k) < 200 /\ SourceAlpha(src, k) < 255

\* C8: enhance_image opens the file named by the row's fileName value and
\* applies the contrast pass with the row's contrast value and then the
\* saturation pass with the row's saturation value
C8_EnhanceUsesRowValues ==
  op = "enhance_image" =>
     /\ error # "TypeError"
     /\ pc = "transform" =>
          /\ fileName = PyStr(data[i].fileName)
          /\ contrast = PyFloat(data[i].contrast)
          /\ saturation = PyFloat(data[i].saturation)
     /\ pc = "name" =>
          img = Enhance(Convert(src, "RGBA"), data[i].contrast, data[i].saturation)

\* C9: the names generate_qr_code returns are pairwise distinct and the
\* output directory holds one file per URL, whatever the clock reads
C9_DistinctQrFiles ==
  (op = "generate_qr_code" /\ pc = "returned") =>
     /\ \A j, k \in 1..Len(result.rows) : j # k => result.rows[j] # result.rows[k]
     /\ Cardinality(DOMAIN files) = Len(data)

\* C10: a URL beyond the capacity of a symbol ends generate_qr_code with the
\* encoding error: nothing is written, shared or synchronized for that row,
\* and a returned table never has fewer rows than the input
C10_OverCapacityFails ==
  op = "generate_qr_code" =>
     /\ pc \in {"name", "save", "share", "synchronize", "append"} =>
          data[i].url # OverCapacityUrl
     /\ error = "DataOverflowError" =>
          /\ pc = "raised"
          /\ result = NoTable
          /\ data[i].url = OverCapacityUrl
          /\ Len(log) = 4 * (i - 1)
          /\ Len(outputs) = i - 1
          /\ Cardinality(DOMAIN files) <= i - 1
     /\ pc = "returned" =>
          /\ Len(result.rows) = Len(data)
          /\ \A k \in 1..Len(data) : data[k].url # OverCapacityUrl

C10_Witness ==
  /\ op = "generate_qr_code"
  /\ error = "DataOverflowError"
  /\ i = 2
  /\ Len(log) = 4

====
